---- MODULE Spec2Model ----
(***************************************************************************)
(* Ant-colony team formation: the two optimizers of the repository.       *)
(*   v1: src/aco_v1.py   (class ACO, Team, Student)                       *)
(*   v2: src/v2/aco.py   (class AntColonyOptimizer)                       *)
(*                                                                         *)
(* Numbers.  Weights and fitness values are Python floats.  They are kept  *)
(* here in fixed point, Unit = 1.0, so the pheromone floor 1e-6 is         *)
(* Unit / 10^6 and values below the floor are still representable.         *)
(* Fitness values are exact fractions rounded down to the fixed point;     *)
(* products with (1 - rho) are rounded up, so that a positive weight stays *)
(* positive, as a double does at these magnitudes.                         *)
(*                                                                         *)
(* Randomness.  random.shuffle, random.random and random.choices are       *)
(* modelled as a choice among every outcome of positive probability.  The  *)
(* global random source is the variable rng: the stream it is on.  Two     *)
(* runs on the same stream make the same draws (tape / drawn).             *)
(*                                                                         *)
(* Team members.  Team.students (v1) and the inner lists of teams (v2)     *)
(* are lists; no code reads a member's position, so a team is kept as a    *)
(* bag of student ids (the multiplicity of a member is kept).              *)
(* Students are numbered 1..n and teams 1..n_teams (0-based in the code).  *)
(***************************************************************************)
EXTENDS Integers, Sequences, FiniteSets, Bags, TLC

VARIABLES
    cfg,            \* the optimizer's configuration fields (self.students, self.team_size, ...)
    pc,             \* position in run(): "construct", "evaporate", "reinforce", "done", "raised"
    it,             \* iterations of run() completed
    teams,          \* construct_solution: the teams being filled
    unassigned,     \* construct_solution: students of the shuffled list not yet visited
    ants_solutions, \* run(): this iteration's (teams, fitness) pairs (v2: all_solutions)
    tau,            \* the pheromone store (v1: self.tau, v2: self.pheromones)
    best_fit,       \* run(): global_best_fit (v2: best_fitness)
    best_teams,     \* run(): global_best_teams (v2: best_solution)
    seen_max,       \* history: the largest fitness of any candidate constructed in this run
    n_constructed,  \* history: the number of candidates constructed in this run
    rng,            \* the stream the global random source is on
    n_runs,         \* how many times the caller creates and runs the optimizer
    run,            \* the number of the current run
    tape,           \* the stream and the draws of the previous run
    drawn,          \* the draws of the current run (recorded when n_runs > 1)
    first_fit       \* the fitness the first run returned

vars == <<cfg, pc, it, teams, unassigned, ants_solutions, tau, best_fit, best_teams,
          seen_max, n_constructed, rng, n_runs, run, tape, drawn, first_fit>>

(***************************************************************************)
(* Bounds of the model                                                     *)
(***************************************************************************)
MaxStudents == 5
MaxTeamSize == 3
MaxAnts == 2
MaxIter == 2
\* a configuration is explored when n_students * n_ants * n_iter <= MaxPlacements
MaxPlacements == 8
\* two-run reproducibility is explored for populations up to this size
MaxReplayStudents == 2

(***************************************************************************)
(* Program constants                                                       *)
(***************************************************************************)
Unit == 10^8
Tau0 == Unit
Floor == Unit \div 10^6
MaxSameNat == 2
UnlimitedNat == "Dutch"
Alpha == 1
Beta == 2
V2Beta == 3
Q == 1
Seed == 42
NegInf == -1
NoTeams == <<>>

Impls == {"v1", "v2"}
ProjectCounts == {2}
TeamsPerProjectChoices == {1}
\* rho as a fraction num/den; (1 - rho) = (den - num)/den
Rhos == {[num |-> 1, den |-> 2], [num |-> 1999, den |-> 2000]}
\* alpha with the range of weights x (in fixed point) on which the double x ** alpha
\* is positive and finite: it is 0.0 for x < low and raises OverflowError for
\* x > high.  x ** 1.0 is x; 0.68896375 ** 2000.0 = 0.0 and 1.42602572 ** 2000.0 raises.
Alphas == {[exp |-> Alpha, low |-> 0, high |-> 2147483647],
           [exp |-> 2000, low |-> 68896376, high |-> 142602571]}
\* the steep exponent is run with the strong evaporation only
Tunings == {tn \in [alpha : Alphas, rho : Rhos] : tn.alpha.exp = Alpha \/ tn.rho.den = 2000}
PriorStates == {1, 2}
Populations == {1, 2, 3}
BelbinRoles == <<"Plant", "Shaper", "Specialist">>

(***************************************************************************)
(* Arithmetic helpers                                                      *)
(***************************************************************************)
Max(a, b) == IF a >= b THEN a ELSE b

RECURSIVE SumF(_, _)
SumF(f, S) == IF S = {} THEN 0
              ELSE LET x == CHOOSE y \in S : TRUE IN f[x] + SumF(f, S \ {x})

RECURSIVE Pow(_, _)
Pow(b, e) == IF e = 0 THEN 1 ELSE b * Pow(b, e - 1)

RECURSIVE Fact(_)
Fact(n) == IF n <= 1 THEN 1 ELSE n * Fact(n - 1)

CeilDiv(a, b) == (a + b - 1) \div b

\* floor(Unit * num / den) without overflowing 32 bits
Scaled(num, den) == (Unit \div den) * num + ((Unit % den) * num) \div den

(***************************************************************************)
(* Input populations                                                       *)
(***************************************************************************)
NatOf(pop, i) == CASE pop = 1 -> "German"
                   [] pop = 2 -> IF i % 2 = 1 THEN "German" ELSE "Dutch"
                   [] OTHER   -> IF i % 2 = 1 THEN "German" ELSE "Italian"

BelbinOf(pop, i) == CASE pop = 1 -> BelbinRoles[(i % 2) + 1]
                      [] pop = 2 -> "Plant"
                      [] OTHER   -> BelbinRoles[(i % 3) + 1]

TopOf(pop, i, P) == CASE pop = 1 -> i % P
                      [] pop = 2 -> 0
                      [] OTHER   -> (i + 1) % P

\* Student(sid, prefs, belbin, nationality); prefs is a permutation of 0..P-1
Student(pop, i, P) ==
    [id |-> i,
     prefs |-> [k \in 1..P |-> (TopOf(pop, i, P) + k - 1) % P],
     belbin |-> BelbinOf(pop, i),
     nationality |-> NatOf(pop, i)]

Population(pop, n, P) == [i \in 1..n |-> Student(pop, i, P)]

Configs(maxN) ==
    { c \in { [impl |-> im,
               students |-> Population(pop, n, P),
               n_projects |-> P,
               teams_per_project |-> tpp,
               team_size |-> ts,
               n_teams |-> P * tpp,
               n_ants |-> a,
               n_iter |-> i,
               alpha |-> tn.alpha,
               rho |-> tn.rho] :
               im \in Impls, pop \in Populations, n \in 1..maxN, P \in ProjectCounts,
               tpp \in TeamsPerProjectChoices, ts \in 1..MaxTeamSize,
               a \in 1..MaxAnts, i \in 1..MaxIter, tn \in Tunings } :
        Len(c.students) * c.n_ants * c.n_iter <= MaxPlacements }

StudentIds == 1..Len(cfg.students)
TeamIds == 1..cfg.n_teams
Pairs == StudentIds \X TeamIds

(***************************************************************************)
(* Team (v1)                                                               *)
(***************************************************************************)
\* len(team)
TeamLen(team) == BagCardinality(team)

\* the number of members m of team, with multiplicity, for which keep[m]
CountIn(team, keep) ==
    LET S == {m \in BagToSet(team) : keep[m]}
    IN SumF([m \in S |-> CopiesIn(m, team)], S)

\* Team.add
Add(tm, t, s) == [tm EXCEPT ![t] = @ (+) SetToBag({s})]

\* can_add with the cap compared off by one (n_same <= max_same_nat)
can_add_OffByOne(team, capacity, student) ==
    IF TeamLen(team) >= capacity THEN FALSE
    ELSE IF student.nationality = UnlimitedNat THEN TRUE
    ELSE LET n_same == CountIn(team, [m \in 1..Len(cfg.students) |->
                           cfg.students[m].nationality = student.nationality])
         IN n_same <= MaxSameNat

\* Team.can_add with its defaults max_same_nat = 2, unlimited_nat = "Dutch"
can_add(team, capacity, student) ==
    IF TeamLen(team) >= capacity THEN FALSE
    ELSE IF student.nationality = UnlimitedNat THEN TRUE
    ELSE LET n_same == CountIn(team, [m \in StudentIds |->
                           cfg.students[m].nationality = student.nationality])
         IN n_same < MaxSameNat

\* the project of team t: j // teams_per_project
ProjectOf(t) == (t - 1) \div cfg.teams_per_project

\* rank = prefs.index(project), 0-based
RankOf(prefs, project) ==
    (CHOOSE i \in 1..Len(prefs) :
        prefs[i] = project /\ \A j \in 1..(i - 1) : prefs[j] # project) - 1

\* Student.satisfaction times (len(prefs) - 1)
SatNum(student, project) == Len(student.prefs) - 1 - RankOf(student.prefs, project)

\* the distinct belbin roles of a team
RolesOf(team) == {cfg.students[m].belbin : m \in BagToSet(team)}

\* Team.fitness as a fraction: numerator over 2 * (P - 1) * L, L = team_size!
TeamFitnessNum(team, t) ==
    IF TeamLen(team) = 0 THEN 0
    ELSE LET S == BagToSet(team)
             satSum == SumF([m \in S |-> CopiesIn(m, team)
                                 * SatNum(cfg.students[m], ProjectOf(t))], S)
         IN (satSum + (cfg.n_projects - 1) * Cardinality(RolesOf(team)))
              * (Fact(cfg.team_size) \div TeamLen(team))

\* construct_solution's fitness: sum(t.fitness() for t in teams) / n_teams
V1Fitness(tm) ==
    Scaled(SumF([t \in TeamIds |-> TeamFitnessNum(tm[t], t)], TeamIds),
           2 * (cfg.n_projects - 1) * Fact(cfg.team_size) * cfg.n_teams)

\* ACO.heuristic as a numerator over 2 * (P - 1) * team_size.  The 1e-6 the code
\* adds is left out: the numerator is at least (P - 1) already.
EtaNum(student, team, t) ==
    cfg.team_size * SatNum(student, ProjectOf(t))
      + (cfg.n_projects - 1) * Cardinality(RolesOf(team) \cup {student.belbin})

\* w ** alpha: 0.0 when it underflows, else positive.  For alpha = 1 the value is w
\* in coarser units; for the steep alpha only its sign is kept, which is all the
\* choice of a team reads (a team is eligible when its score is positive).
TauPow(w) == IF w < cfg.alpha.low THEN 0 ELSE Pow(CeilDiv(w, 10^6), Alpha)

\* w ** alpha raises OverflowError
PowRaises(w) == w > cfg.alpha.high

\* tau_ij ** alpha * eta_ij ** beta, up to a positive factor
V1Score(s, tm, t) ==
    TauPow(tau[<<s, t>>]) * Pow(EtaNum(cfg.students[s], tm[t], t), Beta)

\* feasible = [t for t in teams if t.can_add(s)]
V1CanAddSet(tm, s) ==
    {t \in TeamIds : can_add(tm[t], cfg.team_size, cfg.students[s])}

\* the fallback list without its capacity test
V1Relaxed_NoCapacity(tm, s) == 1..cfg.n_teams

\* feasible = [t for t in teams if len(t) < t.capacity]
V1Relaxed(tm, s) == {t \in TeamIds : TeamLen(tm[t]) < cfg.team_size}

\* the cap never consulted: every team with free capacity is offered
V1Feasible_CapIgnored(tm, s) == {t \in 1..cfg.n_teams : TeamLen(tm[t]) < cfg.team_size}

\* feasible after "if not feasible: feasible = [... len(t) < t.capacity]"
V1Feasible(tm, s) ==
    IF V1CanAddSet(tm, s) = {} THEN V1Relaxed(tm, s) ELSE V1CanAddSet(tm, s)

(***************************************************************************)
(* v2 helpers                                                              *)
(***************************************************************************)
\* teams.index(team): the first index whose list equals team's
IndexOf(tm, t) ==
    CHOOSE i \in DOMAIN tm : tm[i] = tm[t] /\ \A j \in DOMAIN tm : j < i => tm[j] # tm[t]

\* the capacity test off by one (len(t) < team_size - 1)
V2Feasible_OffByOne(tm) == {t \in 1..cfg.n_teams : TeamLen(tm[t]) < cfg.team_size - 1}

\* feasible_teams = [t for t in teams if len(t) < self.team_size]
V2Feasible(tm) == {t \in TeamIds : TeamLen(tm[t]) < cfg.team_size}

\* self.pheromones[key] on a defaultdict(lambda: 1.0): a missing key is inserted
ReadAll(store, keys) ==
    [k \in (DOMAIN store) \cup keys |-> IF k \in DOMAIN store THEN store[k] ELSE Tau0]

\* the weight a read of the store gives for a pair
Weight(store, k) == IF k \in DOMAIN store THEN store[k] ELSE Tau0

\* AntColonyOptimizer.heuristic with preference_weight = 0.5, as a numerator over
\* 20 * len(team).  The 1e-5 of the denominator is left out.
V2HeurNum(student, team) ==
    IF TeamLen(team) = 0 THEN 1
    ELSE LET S == BagToSet(team)
             found == {m \in S : \E i \in 1..Len(student.prefs) :
                                    student.prefs[i] = cfg.students[m].prefs[1]}
             pref_sum == SumF([m \in found |-> CopiesIn(m, team)
                                  * (5 - RankOf(student.prefs, cfg.students[m].prefs[1]))],
                              found)
             div10 == IF student.belbin \notin RolesOf(team) THEN 10 ELSE 5
         IN 2 * pref_sum + div10 * TeamLen(team)

\* score = pheromones[(sid, idx)] ** alpha * heuristic ** beta, up to a positive factor
V2Score(store, s, tm, t) ==
    TauPow(Weight(store, <<s, IndexOf(tm, t)>>))
      * Pow(V2HeurNum(cfg.students[s], tm[t]), V2Beta)

\* AntColonyOptimizer.evaluate with preference_weight = 0.5:
\* numerator over 2 * 45 * L * n_teams, L = team_size!
V2EvalNum(team) ==
    IF TeamLen(team) = 0 THEN 0
    ELSE LET S == BagToSet(team)
             prefs == SumF([m \in S |-> CopiesIn(m, team)
                               * (5 - RankOf(cfg.students[m].prefs, cfg.students[m].prefs[1]))], S)
         IN 9 * prefs * (Fact(cfg.team_size) \div TeamLen(team))
              + 5 * Fact(cfg.team_size) * Cardinality(RolesOf(team))

evaluate(tm) ==
    Scaled(SumF([t \in TeamIds |-> V2EvalNum(tm[t])], TeamIds),
           90 * Fact(cfg.team_size) * cfg.n_teams)

(***************************************************************************)
(* The random source                                                       *)
(***************************************************************************)
\* a draw d is possible: a run on the stream of the previous run repeats its draws
Allowed(d) ==
    (run > 1 /\ rng = tape.rng) =>
        (Len(drawn) < Len(tape.draws) /\ tape.draws[Len(drawn) + 1] = d)

Draw(d) ==
    /\ Allowed(d)
    /\ drawn' = IF n_runs > 1 THEN Append(drawn, d) ELSE drawn

\* ACO.__init__: random.seed(seed).  AntColonyOptimizer.__init__ seeds nothing.
StreamAfterInit(impl, prior) ==
    IF impl = "v1" THEN <<"seed", Seed>> ELSE <<"prior", prior>>

(***************************************************************************)
(* Initial state: the optimizer constructed, run() entered                 *)
(***************************************************************************)
FreshTeams == [t \in TeamIds |-> EmptyBag]

\* self.tau = [[1.0] * n_teams] * n_students; self.pheromones = defaultdict(lambda: 1.0)
InitialStore(c) ==
    IF c.impl = "v1"
    THEN [k \in (1..Len(c.students)) \X (1..c.n_teams) |-> Tau0]
    ELSE [k \in {} |-> Tau0]

InitWith(configs, runs, priors) ==
    /\ cfg \in configs
    /\ pc = "construct"
    /\ it = 0
    /\ teams = [t \in 1..cfg.n_teams |-> EmptyBag]
    /\ unassigned = 1..Len(cfg.students)
    /\ ants_solutions = <<>>
    /\ tau = InitialStore(cfg)
    /\ best_fit = NegInf
    /\ best_teams = NoTeams
    /\ seen_max = NegInf
    /\ n_constructed = 0
    /\ \E prior \in priors : rng = StreamAfterInit(cfg.impl, prior)
    /\ n_runs = runs
    /\ run = 1
    /\ tape = [rng |-> <<"none", 0>>, draws |-> <<>>]
    /\ drawn = <<>>
    /\ first_fit = NegInf

\* one run; what the random source did before is of no interest to a single run
Init == InitWith(Configs(MaxStudents), 1, {1})

(***************************************************************************)
(* v1: ACO.construct_solution                                              *)
(***************************************************************************)
\* one pass of "for s in unassigned": the next student of the shuffled list is s
V1Place ==
    /\ cfg.impl = "v1"
    /\ pc = "construct"
    /\ unassigned # {}
    /\ \E s \in unassigned :
         LET feasible == V1Feasible(teams, s)
             probabilities == [t \in feasible |-> V1Score(s, teams, t)]
             total == SumF(probabilities, feasible)
         IN IF \E t \in feasible : PowRaises(tau[<<s, t>>])
            THEN \* self.tau[s.id][t.id] ** self.alpha raises OverflowError
                 /\ Draw(<<s, 0>>)
                 /\ pc' = "raised"
                 /\ UNCHANGED <<teams, unassigned>>
            ELSE IF total = 0
            THEN IF feasible = {}
                 THEN \* random.choice([]) raises IndexError
                      /\ Draw(<<s, 0>>)
                      /\ pc' = "raised"
                      /\ UNCHANGED <<teams, unassigned>>
                 ELSE \E t \in feasible :
                      /\ Draw(<<s, t>>)
                      /\ teams' = Add(teams, t, s)
                      /\ unassigned' = unassigned \ {s}
                      /\ pc' = pc
            ELSE \* r = random.random() * total; the first t with r <= cumulative
                 \E t \in feasible :
                      /\ probabilities[t] > 0
                           \/ \A u \in feasible : u < t => probabilities[u] = 0
                      /\ Draw(<<s, t>>)
                      /\ teams' = Add(teams, t, s)
                      /\ unassigned' = unassigned \ {s}
                      /\ pc' = pc
    /\ UNCHANGED <<cfg, it, ants_solutions, tau, best_fit, best_teams, seen_max,
                   n_constructed, rng, n_runs, run, tape, first_fit>>

\* construct_solution returns (teams, fitness); run() collects it
V1Finish ==
    /\ cfg.impl = "v1"
    /\ pc = "construct"
    /\ unassigned = {}
    /\ LET fitness == V1Fitness(teams)
           sols == Append(ants_solutions, [teams |-> teams, fitness |-> fitness])
       IN /\ ants_solutions' = sols
          /\ seen_max' = Max(seen_max, fitness)
          /\ pc' = IF Len(sols) < cfg.n_ants THEN "construct" ELSE "evaporate"
    /\ n_constructed' = n_constructed + 1
    /\ teams' = FreshTeams
    /\ unassigned' = StudentIds
    /\ UNCHANGED <<cfg, it, tau, best_fit, best_teams, rng, n_runs, run, tape, drawn,
                   first_fit>>

(***************************************************************************)
(* v1: ACO.update_pheromones and the rest of the iteration                 *)
(***************************************************************************)
\* tau *= (1 - rho)
MulKeep(w) == CeilDiv(w * (cfg.rho.den - cfg.rho.num), cfg.rho.den)

\* tau[i][j] *= (1 - rho); if tau[i][j] < 1e-6: tau[i][j] = 1e-6
V1Decay(w) == IF MulKeep(w) < Floor THEN Floor ELSE MulKeep(w)

V1Evaporate ==
    /\ cfg.impl = "v1"
    /\ pc = "evaporate"
    /\ tau' = [k \in DOMAIN tau |-> V1Decay(tau[k])]
    /\ pc' = "reinforce"
    /\ UNCHANGED <<cfg, it, teams, unassigned, ants_solutions, best_fit, best_teams,
                   seen_max, n_constructed, rng, n_runs, run, tape, drawn, first_fit>>

\* the last candidate of the iteration, whatever its fitness
BestIndex_Last(sols) == Len(sols)

\* max(ants_solutions, key=lambda x: x[1]): the first solution of the largest fitness
BestIndex(sols) ==
    CHOOSE i \in 1..Len(sols) :
        /\ \A j \in 1..Len(sols) : sols[j].fitness <= sols[i].fitness
        /\ \A j \in 1..(i - 1) : sols[j].fitness < sols[i].fitness

\* the deposit made on every team of a placed student's row
Reinforced_WholeRow(store, sol) ==
    [k \in DOMAIN store |->
        store[k] + (IF \E t \in DOMAIN sol.teams : CopiesIn(k[1], sol.teams[t]) > 0
                    THEN Q * sol.fitness ELSE 0)]

\* for t in best_teams: for s in t.students: tau[s.id][t.id] += q * best_fit
Reinforced(store, sol) ==
    [k \in DOMAIN store |->
        store[k] + CopiesIn(k[1], sol.teams[k[2]]) * Q * sol.fitness]

\* if iter_best_fit > global_best_fit: take the iteration's best
V1Best(best, sols) ==
    LET b == sols[BestIndex(sols)]
    IN IF b.fitness > best.fitness THEN b ELSE best

V1Reinforce ==
    /\ cfg.impl = "v1"
    /\ pc = "reinforce"
    /\ tau' = Reinforced(tau, ants_solutions[BestIndex(ants_solutions)])
    /\ LET nb == V1Best([teams |-> best_teams, fitness |-> best_fit], ants_solutions)
       IN /\ best_fit' = nb.fitness
          /\ best_teams' = nb.teams
    /\ it' = it + 1
    /\ ants_solutions' = <<>>
    /\ pc' = IF it + 1 < cfg.n_iter THEN "construct" ELSE "done"
    /\ UNCHANGED <<cfg, teams, unassigned, seen_max, n_constructed, rng, n_runs, run,
                   tape, drawn, first_fit>>

(***************************************************************************)
(* v2: AntColonyOptimizer                                                  *)
(***************************************************************************)
\* one pass of "for student in students"
V2Place ==
    /\ cfg.impl = "v2"
    /\ pc = "construct"
    /\ unassigned # {}
    /\ \E s \in unassigned :
         LET feasible_teams == V2Feasible(teams)
             store == ReadAll(tau, {<<s, IndexOf(teams, t)>> : t \in feasible_teams})
             scores == [t \in feasible_teams |-> V2Score(store, s, teams, t)]
             total == SumF(scores, feasible_teams)
         IN /\ tau' = store
            /\ IF feasible_teams = {}
               THEN \* if not scores: continue
                    /\ Draw(<<s, 0>>)
                    /\ UNCHANGED teams
                    /\ unassigned' = unassigned \ {s}
                    /\ pc' = pc
               ELSE IF \E t \in feasible_teams :
                          PowRaises(store[<<s, IndexOf(teams, t)>>])
               THEN \* self.pheromones[...] ** self.alpha raises OverflowError
                    /\ Draw(<<s, 0>>)
                    /\ pc' = "raised"
                    /\ UNCHANGED <<teams, unassigned>>
               ELSE IF total = 0
               THEN \* probs = [s / total ...] raises ZeroDivisionError
                    /\ Draw(<<s, 0>>)
                    /\ pc' = "raised"
                    /\ UNCHANGED <<teams, unassigned>>
               ELSE \* random.choices(feasible_teams, weights=probs); teams.index(chosen_team)
                    \E t \in feasible_teams :
                       /\ scores[t] > 0
                       /\ Draw(<<s, t>>)
                       /\ teams' = Add(teams, IndexOf(teams, t), s)
                       /\ unassigned' = unassigned \ {s}
                       /\ pc' = pc
    /\ UNCHANGED <<cfg, it, ants_solutions, best_fit, best_teams, seen_max,
                   n_constructed, rng, n_runs, run, tape, first_fit>>

\* the best replaced on a tie as well (fitness >= best_fitness)
V2Best_OnTie(best, sol) == IF sol.fitness >= best.fitness THEN sol ELSE best

\* if fitness > best_fitness: best_solution, best_fitness = solution, fitness
V2Best(best, sol) == IF sol.fitness > best.fitness THEN sol ELSE best

\* the pheromone update moved into the ant loop: it follows every construction
V2Finish_UpdateEveryAnt ==
    /\ cfg.impl = "v2"
    /\ pc = "construct"
    /\ unassigned = {}
    /\ LET sol == [teams |-> teams, fitness |-> evaluate(teams)]
           sols == Append(ants_solutions, sol)
           nb == IF sol.fitness > best_fit THEN sol
                 ELSE [teams |-> best_teams, fitness |-> best_fit]
       IN /\ ants_solutions' = sols
          /\ seen_max' = Max(seen_max, sol.fitness)
          /\ best_fit' = nb.fitness
          /\ best_teams' = nb.teams
          /\ pc' = "evaporate"
    /\ n_constructed' = n_constructed + 1
    /\ teams' = FreshTeams
    /\ unassigned' = StudentIds
    /\ UNCHANGED <<cfg, it, tau, rng, n_runs, run, tape, drawn, first_fit>>

\* construct_solution returns; run() evaluates, collects, and updates the best
V2Finish ==
    /\ cfg.impl = "v2"
    /\ pc = "construct"
    /\ unassigned = {}
    /\ LET sol == [teams |-> teams, fitness |-> evaluate(teams)]
           sols == Append(ants_solutions, sol)
           nb == V2Best([teams |-> best_teams, fitness |-> best_fit], sol)
       IN /\ ants_solutions' = sols
          /\ seen_max' = Max(seen_max, sol.fitness)
          /\ best_fit' = nb.fitness
          /\ best_teams' = nb.teams
          /\ pc' = IF Len(sols) < cfg.n_ants THEN "construct" ELSE "evaporate"
    /\ n_constructed' = n_constructed + 1
    /\ teams' = FreshTeams
    /\ unassigned' = StudentIds
    /\ UNCHANGED <<cfg, it, tau, rng, n_runs, run, tape, drawn, first_fit>>

\* for key in self.pheromones: self.pheromones[key] *= (1 - self.rho)
V2Decay(w) == MulKeep(w)

V2Evaporate ==
    /\ cfg.impl = "v2"
    /\ pc = "evaporate"
    /\ tau' = [k \in DOMAIN tau |-> V2Decay(tau[k])]
    /\ pc' = "reinforce"
    /\ UNCHANGED <<cfg, it, teams, unassigned, ants_solutions, best_fit, best_teams,
                   seen_max, n_constructed, rng, n_runs, run, tape, drawn, first_fit>>

\* for idx, team in enumerate(teams): for student in team: pheromones[(sid, idx)] += fitness
V2Deposit(store, sol) ==
    LET placed == {k \in Pairs : CopiesIn(k[1], sol.teams[k[2]]) > 0}
        read == ReadAll(store, placed)
    IN [k \in DOMAIN read |-> read[k] + CopiesIn(k[1], sol.teams[k[2]]) * sol.fitness]

\* update_pheromones: for teams, fitness in solutions
RECURSIVE V2Reinforced(_, _)
V2Reinforced(store, sols) ==
    IF sols = <<>> THEN store
    ELSE V2Reinforced(V2Deposit(store, Head(sols)), Tail(sols))

V2Reinforce ==
    /\ cfg.impl = "v2"
    /\ pc = "reinforce"
    /\ tau' = V2Reinforced(tau, ants_solutions)
    /\ it' = it + 1
    /\ ants_solutions' = <<>>
    /\ pc' = IF it + 1 < cfg.n_iter THEN "construct" ELSE "done"
    /\ UNCHANGED <<cfg, teams, unassigned, best_fit, best_teams, seen_max,
                   n_constructed, rng, n_runs, run, tape, drawn, first_fit>>

(***************************************************************************)
(* A second optimizer, created with the same arguments and run             *)
(***************************************************************************)
Rerun ==
    /\ pc = "done"
    /\ run < n_runs
    /\ run' = run + 1
    /\ first_fit' = best_fit
    /\ tape' = [rng |-> rng, draws |-> drawn]
    /\ drawn' = <<>>
    /\ \E prior \in PriorStates : rng' = StreamAfterInit(cfg.impl, prior)
    /\ pc' = "construct"
    /\ it' = 0
    /\ teams' = FreshTeams
    /\ unassigned' = StudentIds
    /\ ants_solutions' = <<>>
    /\ tau' = InitialStore(cfg)
    /\ best_fit' = NegInf
    /\ best_teams' = NoTeams
    /\ seen_max' = NegInf
    /\ n_constructed' = 0
    /\ UNCHANGED <<cfg, n_runs>>

Next == V1Place \/ V1Finish \/ V1Evaporate \/ V1Reinforce
          \/ V2Place \/ V2Finish \/ V2Evaporate \/ V2Reinforce

Spec == Init /\ [][Next]_vars

\* the optimizer created and run twice with the same seed, configuration and input
InitRepro == InitWith({c \in Configs(MaxReplayStudents) : c.n_ants = 1 /\ c.n_iter = 1}, 2,
                      PriorStates)

NextRepro == Next \/ Rerun

SpecRepro == InitRepro /\ [][NextRepro]_vars

(***************************************************************************)
(* v1/benchmark.py: random_assignment, the baseline run next to ACO        *)
(***************************************************************************)
\* one pass of "for student in unassigned"
RandomPlace ==
    /\ cfg.impl = "random"
    /\ pc = "construct"
    /\ unassigned # {}
    /\ \E s \in unassigned :
         LET feasible == V1Feasible(teams, s)
         IN IF feasible = {}
            THEN \* if feasible: ... (nothing else: the student stays out)
                 /\ Draw(<<s, 0>>)
                 /\ UNCHANGED teams
                 /\ unassigned' = unassigned \ {s}
            ELSE \* chosen_team = random.choice(feasible); chosen_team.add(student)
                 \E t \in feasible :
                      /\ Draw(<<s, t>>)
                      /\ teams' = Add(teams, t, s)
                      /\ unassigned' = unassigned \ {s}
    /\ UNCHANGED <<cfg, pc, it, ants_solutions, tau, best_fit, best_teams, seen_max,
                   n_constructed, rng, n_runs, run, tape, first_fit>>

\* fitness = sum(t.fitness() for t in teams) / len(teams); return teams, fitness
RandomFinish ==
    /\ cfg.impl = "random"
    /\ pc = "construct"
    /\ unassigned = {}
    /\ ants_solutions' = <<[teams |-> teams, fitness |-> V1Fitness(teams)]>>
    /\ n_constructed' = n_constructed + 1
    /\ pc' = "done"
    /\ UNCHANGED <<cfg, it, teams, unassigned, tau, best_fit, best_teams, seen_max,
                   rng, n_runs, run, tape, drawn, first_fit>>

\* run_benchmark: one trial builds the teams by random_assignment or by ACO(...).run()
BenchmarkConfigs ==
    {c \in Configs(MaxStudents) : c.impl = "v1"}
      \cup {[c EXCEPT !.impl = "random"] :
               c \in {d \in Configs(MaxStudents) :
                         /\ d.impl = "v1" /\ d.n_ants = 1 /\ d.n_iter = 1
                         /\ d.alpha.exp = Alpha /\ d.rho.den = 2}}

InitBenchmark == InitWith(BenchmarkConfigs, 1, {1})

NextBenchmark == V1Place \/ V1Finish \/ V1Evaporate \/ V1Reinforce
                   \/ RandomPlace \/ RandomFinish

SpecBenchmark == InitBenchmark /\ [][NextBenchmark]_vars

(***************************************************************************)
(* Properties                                                              *)
(***************************************************************************)
\* every set of teams the program holds: the one under construction, this
\* iteration's candidates, and the retained best
Candidates == {ants_solutions[i].teams : i \in 1..Len(ants_solutions)}
AllTeamSets == {teams} \cup Candidates \cup (IF best_teams = NoTeams THEN {} ELSE {best_teams})

\* C1: in every state of a construction and in every candidate, no team holds more
\* members than team_size
C1_CapacityNeverExceeded ==
    \A tm \in AllTeamSets : \A t \in TeamIds : TeamLen(tm[t]) <= cfg.team_size

\* a student is still to be visited while every team is full
C1_Witness ==
    /\ pc = "construct"
    /\ unassigned # {}
    /\ \A t \in TeamIds : TeamLen(teams[t]) = cfg.team_size

\* the members of team that have nationality nat
NatCount(team, nat) ==
    CountIn(team, [m \in StudentIds |-> cfg.students[m].nationality = nat])

RestrictedNats == {cfg.students[m].nationality : m \in StudentIds} \ {UnlimitedNat}

C3_ConstructionNeverRaises == pc # "raised"

\* the number of times student s occurs in the teams tm
Occurrences(tm, s) == SumF([t \in TeamIds |-> CopiesIn(s, tm[t])], TeamIds)

\* C4: in every candidate a student occurs at most once, and exactly once when
\* n_teams * team_size >= the number of students
C4_Partition ==
    /\ \A tm \in AllTeamSets : \A s \in StudentIds : Occurrences(tm, s) <= 1
    /\ cfg.n_teams * cfg.team_size >= Len(cfg.students)
         => \A tm \in Candidates : \A s \in StudentIds : Occurrences(tm, s) = 1

\* a candidate was returned for a population that fills the teams exactly
C4_Witness ==
    /\ Candidates # {}
    /\ cfg.n_teams * cfg.team_size = Len(cfg.students)
    /\ Len(cfg.students) > 1

\* the fitness the optimizer gives a set of teams
FitnessOf(tm) == IF cfg.impl = "v1" THEN V1Fitness(tm) ELSE evaluate(tm)

\* run() has returned: the best is the largest fitness constructed, and the
\* returned teams have that fitness
C5_FinalBest ==
    pc = "done" => /\ best_fit = seen_max
                   /\ best_teams # NoTeams
                   /\ FitnessOf(best_teams) = best_fit

\* the candidates the step that replaces the best chooses from
C5_Pool == IF cfg.impl = "v1" THEN ants_solutions ELSE ants_solutions'

\* the retained best changes only to a candidate of strictly larger fitness, the
\* first of that fitness
C5_ReplacedOnlyByBetter ==
    (best_fit' # best_fit \/ best_teams' # best_teams) =>
        /\ best_fit' > best_fit
        /\ \E i \in 1..Len(C5_Pool) :
              /\ C5_Pool[i].teams = best_teams'
              /\ C5_Pool[i].fitness = best_fit'
              /\ \A j \in 1..(i - 1) : C5_Pool[j].fitness < best_fit'

\* C5: run() returns the largest fitness of all candidates constructed and teams of
\* that fitness; the retained best is replaced only by a strictly fitter candidate
C5_BestIsMaximum == [](C5_FinalBest) /\ [][C5_ReplacedOnlyByBetter]_vars

\* run() returned after several candidates, not all of the same fitness
C5_Witness ==
    /\ pc = "done"
    /\ n_constructed > 1
    /\ best_fit > 0
    /\ best_teams # NoTeams

\* C6: evaporation sets every weight, stored or not, to max(floor, old * (1 - rho)),
\* and no weight is ever below the floor
C6_EvaporationClamps ==
    /\ [][pc = "evaporate" =>
            \A k \in Pairs : Weight(tau', k) = Max(Floor, MulKeep(Weight(tau, k)))]_vars
    /\ [](\A k \in Pairs : Weight(tau, k) >= Floor)

\* the candidates the reinforcement step deposits for
ReinforcedIdx ==
    IF cfg.impl = "v1" THEN {BestIndex(ants_solutions)} ELSE 1..Len(ants_solutions)

\* what candidate sol deposits on pair k
DepositOf(sol, k) == IF CopiesIn(k[1], sol.teams[k[2]]) > 0 THEN Q * sol.fitness ELSE 0

\* C7 as stated: the reinforcement step changes a weight by q * fitness of the
\* reinforced candidate when the pair is in it, and not at all otherwise
C7_ReinforceOneCandidate ==
    [][pc = "reinforce" =>
          \A i \in ReinforcedIdx : \A k \in Pairs :
              Weight(tau', k) = Weight(tau, k) + DepositOf(ants_solutions[i], k)]_vars

\* C7 amended: the reinforcement step adds to each weight q * fitness of every
\* reinforced candidate that holds the pair, and nothing else
C7_ReinforceAddsPerCandidate ==
    [][pc = "reinforce" =>
          \A k \in Pairs :
              Weight(tau', k) = Weight(tau, k)
                  + SumF([i \in ReinforcedIdx |-> DepositOf(ants_solutions[i], k)],
                         ReinforcedIdx)]_vars

\* an iteration of several ants has reinforced some pairs more than others
C7_Witness ==
    /\ it >= 1
    /\ cfg.n_ants >= 2
    /\ \E k \in Pairs : \E l \in Pairs : Weight(tau, k) > Weight(tau, l)

\* C8: run() ends only by returning, after n_iter iterations of n_ants candidates
C8_RunCompletes ==
    pc \in {"done", "raised"} =>
        /\ pc = "done"
        /\ it = cfg.n_iter
        /\ n_constructed = cfg.n_iter * cfg.n_ants

\* C9: the second run with the same seed, configuration and input returns the
\* fitness of the first, whatever the random source did before either was created
C9_Reproducible == (run = 2 /\ pc = "done") => best_fit = first_fit

\* C10: no step of construct_solution changes the pheromone store
C10_ConstructionReadsOnly == [][pc = "construct" => tau' = tau]_vars

\* one step of run(), seen from the barrier between construction and update
C11_Step ==
    /\ (pc' = "evaporate" /\ pc # "evaporate") =>
          /\ pc = "construct"
          /\ it' = it
          /\ Len(ants_solutions') = cfg.n_ants
          /\ n_constructed' = (it + 1) * cfg.n_ants
    /\ pc = "evaporate" =>
          /\ pc' = "reinforce"
          /\ it' = it
          /\ ants_solutions' = ants_solutions
          /\ n_constructed' = n_constructed
    /\ (pc' = "reinforce" /\ pc # "reinforce") => pc = "evaporate"
    /\ pc = "reinforce" =>
          /\ pc' \in {"construct", "done"}
          /\ it' = it + 1
          /\ n_constructed' = n_constructed
    /\ pc = "construct" =>
          /\ it' = it
          /\ n_constructed = it * cfg.n_ants + Len(ants_solutions)
          /\ \A k \in Pairs : Weight(tau', k) = Weight(tau, k)

\* C11: in every iteration the store is evaporated once, then reinforced, both after
\* all n_ants constructions of the iteration and before any of the next; no weight
\* changes during construction
C11_UpdateIsBarrier == [][C11_Step]_vars

\* a construction of the second iteration is under way, after several ants and an update
C11_Witness ==
    /\ pc = "construct"
    /\ it >= 1
    /\ cfg.n_ants >= 2
    /\ n_constructed > it * cfg.n_ants
    /\ unassigned # StudentIds

\* the candidates of the iteration with the highest fitness
C12_Highest ==
    {i \in 1..Len(ants_solutions) :
        \A j \in 1..Len(ants_solutions) :
            ants_solutions[i].fitness >= ants_solutions[j].fitness}

\* pair k is an assignment of candidate i
C12_InCandidate(i, k) == CopiesIn(k[1], ants_solutions[i].teams[k[2]]) > 0

\* C12 as stated: the reinforcement step raises only weights of pairs of one
\* candidate, a highest-fitness one of the iteration
C12_OnlyBestAdds ==
    [][pc = "reinforce" =>
          \E i \in C12_Highest : \A k \in Pairs :
              Weight(tau', k) > Weight(tau, k) => C12_InCandidate(i, k)]_vars

\* C12 amended: v1 raises exactly the pairs of one highest-fitness candidate;
\* v2 raises exactly the pairs of all candidates of the iteration
C12_ElitistOnlyInV1 ==
    [][pc = "reinforce" =>
          IF cfg.impl = "v1"
          THEN \E i \in C12_Highest : \A k \in Pairs :
                   Weight(tau', k) > Weight(tau, k) <=> C12_InCandidate(i, k)
          ELSE \A k \in Pairs :
                   Weight(tau', k) > Weight(tau, k)
                       <=> \E i \in 1..Len(ants_solutions) : C12_InCandidate(i, k)]_vars

\* an update is about to reinforce, from two candidates of different fitness that
\* assign some student to different teams
C12_Witness ==
    /\ pc = "reinforce"
    /\ Len(ants_solutions) >= 2
    /\ ants_solutions[1].fitness < ants_solutions[2].fitness
    /\ \E k \in Pairs : C12_InCandidate(1, k) /\ ~C12_InCandidate(2, k)

\* the feasible list and the scores the next placement of student s computes
C13_Feasible(s) == IF cfg.impl = "v1" THEN V1Feasible(teams, s) ELSE V2Feasible(teams)

C13_Score(s, t) ==
    IF cfg.impl = "v1" THEN V1Score(s, teams, t) ELSE V2Score(tau, s, teams, t)

\* the feasible list of s is non-empty and its scores sum to zero
C13_ZeroSum(s) ==
    /\ C13_Feasible(s) # {}
    /\ \A t \in C13_Feasible(s) : C13_Score(s, t) = 0

\* C13: a placement whose feasible list is non-empty and whose scores sum to zero
\* does not fail, and puts the student into a team of the feasible list
C13_ZeroSumFallsBack ==
    [][(pc = "construct" /\ unassigned # {}) =>
          /\ pc' = "raised" => \A s \in unassigned : ~C13_ZeroSum(s)
          /\ \A s \in unassigned :
                (C13_ZeroSum(s) /\ unassigned' = unassigned \ {s}) =>
                    \E t \in C13_Feasible(s) : teams' = Add(teams, t, s)]_vars

\* C14: a student is placed into a team whose can_add was false at that moment
\* only if no team passed can_add for the student, and the team had free capacity
C14_CapWaivedAsLastResort ==
    [][pc = "construct" =>
          \A s \in unassigned : \A t \in TeamIds :
              ( /\ unassigned' = unassigned \ {s}
                /\ teams' = Add(teams, t, s)
                /\ ~can_add(teams[t], cfg.team_size, cfg.students[s]) )
              => /\ V1CanAddSet(teams, s) = {}
                 /\ TeamLen(teams[t]) < cfg.team_size]_vars

\* a construction by random_assignment holds a team over the cap: a placement
\* was made with the cap waived
C14_Witness ==
    /\ cfg.impl = "random"
    /\ pc = "construct"
    /\ \E t \in TeamIds : \E nat \in RestrictedNats : NatCount(teams[t], nat) > MaxSameNat

====
